---- MODULE Spec2Model ----
(***************************************************************************)
(* Stock-mutation core of the inventory backend:                           *)
(* InventarioMovimiento.apply (inventario/models.py) run by concurrent     *)
(* requests against one database.  The database is modelled as the code    *)
(* uses it: transaction.atomic() makes the writes of a call visible only   *)
(* at commit, select_for_update() takes the row lock of the product until  *)
(* the transaction ends, PositiveIntegerField carries a CHECK (>= 0) and   *)
(* operation_id carries a UNIQUE index.  Every database statement of       *)
(* apply is one step, so the calls interleave statement by statement.      *)
(* Around it stand the API flows of inventario/views.py that reach the     *)
(* same rows: the two serializer paths into apply, product create, edit    *)
(* and delete, and category delete.                                        *)
(***************************************************************************)
EXTENDS Integers, Sequences, FiniteSets, TLC

(* ------------------------------ bounds --------------------------------- *)
\* apply calls started in one behaviour of the general specifications
MaxCalls == 2
\* apply calls started in one behaviour of the narrow specifications
\* (one product, a few quantities), which follow longer chains of calls
MaxChain == 3
\* turns of the loop of Categoria.nivel that are followed
MaxNivel == 4
\* request slots (concurrent callers); Pair is the two the general
\* specification uses
Calls == {1, 2, 3}
Pair == {1, 2}
\* primary keys of the Producto rows
Productos == {1, 2}
\* stock of every product when a behaviour of the general specification starts
InitStocks == {1}
\* quantities a caller may pass
Cantidades == {-1, 2}
\* operation ids a caller may supply
OpIds == {1}

(* --------------------------- program constants ------------------------- *)
\* InventarioMovimiento.IN / OUT / ADJ (IN is a reserved word here)
MOV_IN == "IN"
MOV_OUT == "OUT"
MOV_ADJ == "ADJ"
MOVEMENT_TYPES == {MOV_IN, MOV_OUT, MOV_ADJ}
\* a kind outside MOVEMENT_TYPES, as a direct caller of apply may pass
Tipos == MOVEMENT_TYPES \cup {"XX"}
\* operation_id=None (or blank): `not operation_id` is true
Absent == 0

\* "no row": .first() on an empty queryset, and the not-yet-inserted Movement
NoMv == [id |-> 0, producto |-> 0, movimiento_tipo |-> "", cantidad |-> 0,
         operation_id |-> 0]
NoArgs == [via |-> "", producto |-> 0, movimiento_tipo |-> "", cantidad |-> 0,
           operation_id |-> 0]

\* primary keys of the Categoria rows
Categorias == {1, 2, 3}
\* parent[k] of a category that has no row
NoRow == -1
\* max_stock = None (null=True)
NoMax == -1
\* Producto.min_stock default
MinStockDefault == 5
\* no product-edit request is between get_object() and save()
NoEdit == [pk |-> 0, stock |-> 0, categoria |-> 0, min_stock |-> 0, max_stock |-> 0,
           coste_precio |-> 0, venta_precio |-> 0]
\* no product or category request was answered yet
NoResp == [op |-> "", pk |-> 0, status |-> 0]
\* no product was retrieved yet
NoView == [pk |-> 0, stock |-> 0, min_stock |-> 0, bajo_stock |-> FALSE,
           estado_stock |-> ""]
\* no Categoria instance has its nivel computed
NoWalk == [de |-> 0, current |-> 0, nivel |-> 0, es_raiz |-> FALSE,
           returned |-> FALSE, moved |-> FALSE]
\* no Movement was saved under the post_save handler of signals.py
NoLegacy == [created |-> FALSE, movimiento_tipo |-> "", cantidad |-> 0, before |-> 0,
             stock |-> 0, saved |-> FALSE, raised |-> FALSE]

VARIABLES
  stock,    \* committed Producto.stock, by product pk
  ledger,   \* committed InventarioMovimiento rows, in commit order
  lock,     \* select_for_update row lock: the call holding it, or 0
  nextId,   \* next primary key of InventarioMovimiento
  uuids,    \* number of uuid4 tokens generated so far
  pc,       \* position of each call inside apply
  args,     \* arguments of each call (operation_id already resolved)
  p,        \* p.stock of the locked Producto instance of each call
  mv,       \* Movement row inserted by the call, not yet committed
  last,     \* the call that completed last: its arguments and what it got back
  ndone,    \* number of completed calls
  left,     \* number of calls the behaviour may still start
  stock0,   \* the stock at the start (never changes)
  rows,     \* primary keys of the committed Producto rows
  nextPk,   \* next primary key of Producto
  parent,   \* Categoria.parent by category pk (0: NULL, NoRow: no such row)
  categoria,\* Producto.categoria by product pk (0: NULL)
  edit,     \* the product-edit request between get_object() and save()
  min_stock,    \* Producto.min_stock by product pk
  max_stock,    \* Producto.max_stock by product pk (NoMax: NULL)
  coste_precio, \* Producto.coste_precio by product pk, in cents
  venta_precio, \* Producto.venta_precio by product pk, in cents
  view,     \* the product representation returned by the last GET
  nextCat,  \* next primary key of Categoria
  walk,     \* the evaluation of Categoria.nivel in progress
  legacy,   \* a Movement save handled by actualizar_stock_desde_movimiento
  resp      \* the last answer to a product or category request

\* the other columns of Producto
columns == <<min_stock, max_stock, coste_precio, venta_precio>>

\* what is outside the database
aside == <<view, walk, legacy>>

\* the rows the apply steps never write
catalog == <<rows, nextPk, parent, categoria, edit, columns, nextCat, aside, resp>>

vars == <<stock, ledger, lock, nextId, uuids, pc, args, p, mv, last, ndone, left, stock0,
          rows, nextPk, parent, categoria, edit, min_stock, max_stock, coste_precio,
          venta_precio, view, nextCat, walk, legacy, resp>>

\* how a request reaches apply: called directly, through
\* InventarioMovimientoCreateSerializer, or through StockUpdateSerializer
VIA_APPLY == "apply"
VIA_CREATE == "create"
VIA_STOCK == "stock"

ApiRequests(paths, prods, tipos, cants, ops) ==
  [via : paths, producto : prods, movimiento_tipo : tipos, cantidad : cants,
   operation_id : ops]

\* direct calls of InventarioMovimiento.apply
Requests(prods, tipos, cants, ops) == ApiRequests({VIA_APPLY}, prods, tipos, cants, ops)

AllRequests == Requests(Productos, Tipos, Cantidades, OpIds \cup {Absent})

(* ------------------------------ helpers -------------------------------- *)
\* mutant: the lookup also filters by the product of the call
ExistingSameProduct(c) ==
  IF \E i \in 1..Len(ledger) :
       /\ ledger[i].operation_id = args[c].operation_id
       /\ ledger[i].producto = args[c].producto
  THEN ledger[CHOOSE i \in 1..Len(ledger) :
                /\ ledger[i].operation_id = args[c].operation_id
                /\ ledger[i].producto = args[c].producto]
  ELSE NoMv

\* mutant: apply without the idempotency lookup
ExistingNever(c) == NoMv

\* cls.objects.filter(operation_id=operation_id).first(), READ COMMITTED
Existing(c) ==
  IF \E i \in 1..Len(ledger) : ledger[i].operation_id = args[c].operation_id
  THEN ledger[CHOOSE i \in 1..Len(ledger) :
                ledger[i].operation_id = args[c].operation_id]
  ELSE NoMv

\* mutant: a plain get() without select_for_update()
LockableAlways(prod) == TRUE

\* select_for_update() returns only when no other transaction holds the row
Lockable(prod) == lock[prod] = 0

\* mutant: OUT without the sufficiency check
InsufficientNever(cur, cant) == FALSE

\* `if p.stock < int(cantidad)` of the OUT branch
Insufficient(cur, cant) == cur < cant

\* mutant: the if / elif chain without its final else
UnsupportedNever(tipo) == FALSE

\* the final `else: raise IntegrityError("Tipo de movimiento no soportado.")`
Unsupported(tipo) == tipo \notin MOVEMENT_TYPES

\* mutant: ADJ applied as a delta
NewStockAdjDelta(tipo, cur, cant) ==
  CASE tipo = MOV_IN  -> cur + cant
    [] tipo = MOV_OUT -> cur - cant
    [] tipo = MOV_ADJ -> cur + cant
    [] OTHER          -> cur

\* the stock the IN / OUT / ADJ branches assign to p.stock (no branch
\* taken: p.stock keeps its value)
NewStock(tipo, cur, cant) ==
  CASE tipo = MOV_IN  -> cur + cant
    [] tipo = MOV_OUT -> cur - cant
    [] tipo = MOV_ADJ -> cant
    [] OTHER          -> cur

\* mutant: the fields as plain IntegerField (no CHECK)
IntegerField(v) == TRUE

\* CHECK (col >= 0) that PositiveIntegerField puts on Producto.stock and on
\* InventarioMovimiento.cantidad: TRUE when the database accepts the value
PositiveIntegerField(v) == v >= 0

\* mutant: an OUT beyond the stock goes below zero
HookStockNoClamp(created, tipo, cur, cant) ==
  IF ~created THEN cur
  ELSE CASE tipo = MOV_IN  -> cur + cant
         [] tipo = MOV_OUT -> cur - cant
         [] tipo = MOV_ADJ -> cant
         [] OTHER          -> cur

\* actualizar_stock_desde_movimiento: the stock the post_save receiver
\* leaves in producto.stock, `if created:` IN adds, OUT subtracts and is
\* floored at 0, ADJ sets
HookStock(created, tipo, cur, cant) ==
  IF ~created THEN cur
  ELSE CASE tipo = MOV_IN  -> cur + cant
         [] tipo = MOV_OUT -> IF cur - cant < 0 THEN 0 ELSE cur - cant
         [] tipo = MOV_ADJ -> cant
         [] OTHER          -> cur

\* mutant: the application imports inventario.signals when it starts
PostSaveConnectedAtStartup == TRUE

\* whether the receivers of signals.py are registered: @receiver takes
\* effect when the module is imported, and apply is the sole mutation path
PostSaveConnected == FALSE

\* producto.stock of the instance given to objects.create, once create has
\* returned: post_save receivers run inside create
PostSave(tipo, cur, cant) ==
  IF PostSaveConnected THEN HookStock(TRUE, tipo, cur, cant) ELSE cur

\* mutant: p.save() outside a transaction (autocommit)
AutocommitSave(prod, new) == [stock EXCEPT ![prod] = new]

\* committed stock right after p.save() inside transaction.atomic():
\* the write stays private to the transaction until commit
AtomicSave(prod, new) == stock

\* mutant: an UPDATE without the filter on the primary key
CommittedSaveAll(prod, new) == [x \in Productos |-> new]

\* committed stock once the transaction of p.save() has committed: the
\* UPDATE wrote the row of p only
CommittedSave(prod, new) == [stock EXCEPT ![prod] = new]

\* mutant: operation_id without unique=True
UniqueViolationNever(op) == FALSE

\* UNIQUE index on operation_id, checked by the INSERT of objects.create
UniqueViolation(op) == \E i \in 1..Len(ledger) : ledger[i].operation_id = op

\* the INSERT waits while another transaction has inserted the same key
\* and has neither committed nor rolled back
InsertBlocked(c) ==
  \E d \in Calls \ {c} : mv[d] # NoMv /\ mv[d].operation_id = args[c].operation_id

\* StockUpdateSerializer.save and ProductoStockUpdateView.update: an
\* IntegrityError of apply becomes a ValidationError, HTTP 400; a Movement is
\* returned with HTTP 200
StockUpdateStatus(ret) == IF ret.exc = "IntegrityError" THEN 400 ELSE 200

\* mutant: a token that is the same for every call
FreshTokenConstant(n) == -1

\* str(uuid.uuid4()): the n+1st token generated, different from all before
\* it and from every caller-supplied id (those are positive)
FreshToken(n) == -(n + 1)

Ok(m, how) == [exc |-> "", msg |-> "", mv |-> m, how |-> how]
Err(msg) == [exc |-> "IntegrityError", msg |-> msg, mv |-> NoMv, how |-> "raised"]
\* an exception of another class leaves the call
Raise(exc) == [exc |-> exc, msg |-> "", mv |-> NoMv, how |-> "raised"]

InFlight == {c \in Calls : pc[c] # "idle"}

(* ------------------------------- Init ---------------------------------- *)
\* the state of the calls and of the stock before any call
InitApply(stocks, n) ==
  /\ stock \in stocks
  /\ stock0 = stock
  /\ ledger = <<>>
  /\ lock = [x \in Productos |-> 0]
  /\ nextId = 1
  /\ uuids = 0
  /\ pc = [c \in Calls |-> "idle"]
  /\ args = [c \in Calls |-> NoArgs]
  /\ p = [c \in Calls |-> 0]
  /\ mv = [c \in Calls |-> NoMv]
  /\ last = [args |-> NoArgs, ret |-> Ok(NoMv, "")]
  /\ ndone = 0
  /\ left = n

\* the other columns at their model defaults, nothing outside the database
InitColumns ==
  /\ min_stock = [x \in Productos |-> MinStockDefault]
  /\ max_stock = [x \in Productos |-> NoMax]
  /\ coste_precio = [x \in Productos |-> 0]
  /\ venta_precio = [x \in Productos |-> 0]
  /\ view = NoView
  /\ walk = NoWalk
  /\ legacy = NoLegacy
  /\ resp = NoResp

\* every product has its row and no category
InitWith(stocks, n) ==
  /\ InitApply(stocks, n)
  /\ rows = Productos
  /\ nextPk = 3
  /\ parent = [k \in Categorias |-> 0]
  /\ nextCat = 4
  /\ categoria = [x \in Productos |-> 0]
  /\ edit = NoEdit
  /\ InitColumns

Init == InitWith([Productos -> InitStocks], MaxCalls)

(* ------------------------------ actions -------------------------------- *)
\* mutant: the row lock outlives the transaction
FinishHoldsLock(c, r) ==
  /\ pc' = [pc EXCEPT ![c] = "idle"]
  /\ last' = [args |-> args[c], ret |-> r]
  /\ ndone' = ndone + 1
  /\ lock' = lock
  /\ args' = [args EXCEPT ![c] = NoArgs]
  /\ p' = [p EXCEPT ![c] = 0]
  /\ mv' = [mv EXCEPT ![c] = NoMv]

\* the call returns or raises: the atomic block is left, the row lock is
\* released, the caller gets `r`
Finish(c, r) ==
  /\ pc' = [pc EXCEPT ![c] = "idle"]
  /\ last' = [args |-> args[c], ret |-> r]
  /\ ndone' = ndone + 1
  /\ lock' = [x \in Productos |-> IF lock[x] = c THEN 0 ELSE lock[x]]
  /\ args' = [args EXCEPT ![c] = NoArgs]
  /\ p' = [p EXCEPT ![c] = 0]
  /\ mv' = [mv EXCEPT ![c] = NoMv]

\* apply is entered: `if not operation_id: operation_id = str(uuid.uuid4())`
Enter(c, r) ==
  /\ IF r.operation_id = Absent
     THEN /\ args' = [args EXCEPT ![c] = [r EXCEPT !.operation_id = FreshToken(uuids)]]
          /\ uuids' = uuids + 1
     ELSE /\ args' = [args EXCEPT ![c] = r]
          /\ uuids' = uuids
  /\ pc' = [pc EXCEPT ![c] = "lookup"]
  /\ UNCHANGED <<last, ndone>>

\* apply is called directly
Begin(c, r) ==
  /\ pc[c] = "idle"
  /\ left > 0
  /\ left' = left - 1
  /\ Enter(c, r)
  /\ UNCHANGED <<stock, ledger, lock, nextId, p, mv, stock0>>
  /\ UNCHANGED catalog

\* existing = ...first(); if existing: return existing
Lookup(c) ==
  /\ pc[c] = "lookup"
  /\ IF Existing(c) # NoMv
     THEN Finish(c, Ok(Existing(c), "existing"))
     ELSE /\ pc' = [pc EXCEPT ![c] = "lock"]
          /\ UNCHANGED <<lock, args, p, mv, last, ndone>>
  /\ UNCHANGED <<stock, ledger, nextId, uuids, left, stock0>>
  /\ UNCHANGED catalog

\* p = Producto.objects.select_for_update().get(pk=producto.pk)
Lock(c) ==
  /\ pc[c] = "lock"
  /\ IF args[c].producto \notin rows
     THEN \* .get() finds no row: Producto.DoesNotExist
          Finish(c, Raise("DoesNotExist"))
     ELSE /\ Lockable(args[c].producto)
          /\ lock' = [lock EXCEPT ![args[c].producto] = c]
          /\ p' = [p EXCEPT ![c] = stock[args[c].producto]]
          /\ pc' = [pc EXCEPT ![c] = "compute"]
          /\ UNCHANGED <<args, mv, last, ndone>>
  /\ UNCHANGED <<stock, ledger, nextId, uuids, left, stock0>>
  /\ UNCHANGED catalog

\* the IN / OUT / ADJ / else branches and p.save(update_fields=[...])
Compute(c) ==
  /\ pc[c] = "compute"
  /\ LET a == args[c] IN
     IF Unsupported(a.movimiento_tipo)
     THEN /\ Finish(c, Err("Tipo de movimiento no soportado."))
          /\ stock' = stock
     ELSE IF a.movimiento_tipo = MOV_OUT /\ Insufficient(p[c], a.cantidad)
     THEN /\ Finish(c, Err("Stock insuficiente para salida."))
          /\ stock' = stock
     ELSE IF ~PositiveIntegerField(NewStock(a.movimiento_tipo, p[c], a.cantidad))
     THEN \* the UPDATE of p.save() violates CHECK (stock >= 0)
          /\ Finish(c, Err("CHECK stock >= 0"))
          /\ stock' = stock
     ELSE /\ p' = [p EXCEPT ![c] = NewStock(a.movimiento_tipo, p[c], a.cantidad)]
          /\ stock' = AtomicSave(a.producto,
                                 NewStock(a.movimiento_tipo, p[c], a.cantidad))
          /\ pc' = [pc EXCEPT ![c] = "insert"]
          /\ UNCHANGED <<lock, args, mv, last, ndone>>
  /\ UNCHANGED <<ledger, nextId, uuids, left, stock0>>
  /\ UNCHANGED catalog

\* mv = cls.objects.create(...): the INSERT of the Movement row
Insert(c) ==
  /\ pc[c] = "insert"
  /\ LET a == args[c] IN
     IF ~PositiveIntegerField(a.cantidad)
     THEN \* the INSERT violates CHECK (cantidad >= 0)
          /\ Finish(c, Err("CHECK cantidad >= 0"))
          /\ UNCHANGED nextId
     ELSE /\ ~InsertBlocked(c)
          /\ IF UniqueViolation(a.operation_id)
             THEN /\ Finish(c, Err("UNIQUE operation_id"))
                  /\ UNCHANGED nextId
             ELSE /\ mv' = [mv EXCEPT ![c] =
                              [id |-> nextId, producto |-> a.producto,
                               movimiento_tipo |-> a.movimiento_tipo,
                               cantidad |-> a.cantidad,
                               operation_id |-> a.operation_id]]
                  /\ nextId' = nextId + 1
                  /\ p' = [p EXCEPT ![c] = PostSave(a.movimiento_tipo, p[c], a.cantidad)]
                  /\ pc' = [pc EXCEPT ![c] = "commit"]
                  /\ UNCHANGED <<lock, args, last, ndone>>
  /\ UNCHANGED <<stock, ledger, uuids, left, stock0>>
  /\ UNCHANGED catalog

\* `return mv` leaves the atomic block: COMMIT
Commit(c) ==
  /\ pc[c] = "commit"
  /\ stock' = CommittedSave(args[c].producto, p[c])
  /\ ledger' = Append(ledger, mv[c])
  /\ Finish(c, Ok(mv[c], "created"))
  /\ UNCHANGED <<nextId, uuids, left, stock0>>
  /\ UNCHANGED catalog

NextWith(calls, reqs) ==
  \E c \in calls :
    \/ \E r \in reqs : Begin(c, r)
    \/ Lookup(c)
    \/ Lock(c)
    \/ Compute(c)
    \/ Insert(c)
    \/ Commit(c)

Next == NextWith(Pair, AllRequests)

Spec == Init /\ [][Next]_vars

(* ------------------------ other specifications ------------------------- *)
\* one caller at a time: a call starts only after the previous one returned
NextSeq == NextWith({1}, AllRequests)

SpecSeq == Init /\ [][NextSeq]_vars

\* concurrent OUT calls with distinct (generated) operation ids, one product
OutRequests == Requests({1}, {MOV_OUT}, {4, 6}, {Absent})

InitOut == InitWith({[x \in Productos |-> 10]}, MaxChain)

NextOut == NextWith(Calls, OutRequests)

SpecOut == InitOut /\ [][NextOut]_vars

\* chains of IN / OUT / ADJ calls on one product
KindRequests ==
  Requests({1}, {MOV_IN, MOV_OUT}, {1, 3}, {Absent})
    \cup Requests({1}, {MOV_ADJ}, {12}, {Absent})

InitKinds == InitWith({[x \in Productos |-> s] : s \in {0, 5}}, MaxChain)

NextKinds == NextWith(Pair, KindRequests)

SpecKinds == InitKinds /\ [][NextKinds]_vars

\* chains of direct calls with zero, negative and positive quantities
QtyRequests == Requests({1}, MOVEMENT_TYPES, {-1, 0, 1}, {Absent})

InitQty == InitWith({[x \in Productos |-> 1]}, MaxChain)

NextQty == NextWith({1}, QtyRequests)

SpecQty == InitQty /\ [][NextQty]_vars

\* one caller retrying an OUT under its operation_id while IN calls
\* replenish the stock, which starts at 0
RetryRequests ==
  Requests({1}, {MOV_OUT}, {2}, {1}) \cup Requests({1}, {MOV_IN}, {2, 3}, {Absent})

InitRetry == InitWith({[x \in Productos |-> 0]}, MaxChain + 1)

NextRetry == NextWith({1}, RetryRequests)

SpecRetry == InitRetry /\ [][NextRetry]_vars

\* two callers on one product, with calls that leave apply by each of its
\* exits: commit, insufficient stock, unsupported kind, failed INSERT
LockRequests == Requests({1}, {MOV_IN, MOV_OUT, "XX"}, {-1, 2}, {Absent})

InitLock == InitWith({[x \in Productos |-> 1]}, MaxChain)

NextLock == NextWith(Pair, LockRequests)

SpecLock == InitLock /\ [][NextLock]_vars

\* a call that has been started runs on: each statement of apply is
\* executed once it can be, and the database grants a row lock that stays
\* free
SpecLockFair ==
  /\ SpecLock
  /\ \A c \in Pair :
       /\ WF_vars(Lookup(c))
       /\ WF_vars(Lock(c))
       /\ WF_vars(Compute(c))
       /\ WF_vars(Insert(c))
       /\ WF_vars(Commit(c))

(* ------------------------------ API flows ------------------------------ *)
\* request bodies of the product create and edit flows: the keys a body
\* carries and the values under them (prices in cents)
Bodies(keysets, stocks, mins, maxs, costes, ventas) ==
  [keys : keysets, stock : stocks, min_stock : mins, max_stock : maxs,
   coste_precio : costes, venta_precio : ventas]

\* bodies that carry at most a stock
Payloads(stocks) ==
  Bodies({{}}, {0}, {0}, {0}, {0}, {0})
    \cup Bodies({{"stock"}}, stocks, {0}, {0}, {0}, {0})

\* validate_stock of ProductoSerializer and of ProductoCreateSerializer
ValidStock(d) == "stock" \in d.keys => d.stock >= 0

\* is_valid() of both product serializers: validate_stock, and the
\* MinValueValidator(0) of the PositiveIntegerField columns; no validator
\* compares two fields
ValidBody(d) ==
  /\ ValidStock(d)
  /\ "min_stock" \in d.keys => d.min_stock >= 0
  /\ "max_stock" \in d.keys => (d.max_stock = NoMax \/ d.max_stock >= 0)

\* the value a field of the instance has after the validated body was set
\* on it: that of the body, else `cur`
Field(d, key, cur) == IF key \in d.keys THEN d[key] ELSE cur

\* the answer of a generic view: 201 created, 200 updated, 204 deleted, 400
\* for a body is_valid() refuses, 500 for an IntegrityError of the save,
\* which no view catches
Answer(op, pk, status) == [op |-> op, pk |-> pk, status |-> status]

\* mutant: Producto without Meta.constraints
RowCheckNone(min, max) == TRUE

\* Producto.Meta.constraints, checked by the database on INSERT and UPDATE:
\* producto_min_stock_nonneg and producto_max_ge_min_or_null
RowCheck(min, max) == min >= 0 /\ (max = NoMax \/ max >= min)

\* instance.stock after ModelSerializer.update set the validated fields:
\* `stock` is in Meta.fields and not in read_only_fields
UpdatedStock(d, cur) == IF "stock" \in d.keys THEN d.stock ELSE cur

\* stock of the row ProductoCreateSerializer inserts (model default 0)
CreatedStock(d) == IF "stock" \in d.keys THEN d.stock ELSE 0

\* InventarioMovimientoCreateSerializer.is_valid: the model fields
\* (producto must exist, movimiento_tipo is a choice, cantidad >= 0), then
\* validate()
ValidCreate(r) ==
  /\ r.producto \in rows
  /\ r.movimiento_tipo \in MOVEMENT_TYPES
  /\ r.cantidad >= 0
  /\ r.movimiento_tipo \in {MOV_IN, MOV_OUT} => r.cantidad > 0
  /\ r.movimiento_tipo = MOV_ADJ => r.cantidad >= 0

\* StockUpdateSerializer.is_valid: ChoiceField, IntegerField(min_value=1),
\* then validate()
ValidStockUpdate(r) ==
  /\ r.movimiento_tipo \in MOVEMENT_TYPES
  /\ r.cantidad >= 1
  /\ r.movimiento_tipo = MOV_ADJ => r.cantidad >= 0

\* HTTP status of the response: the serializers turn IntegrityError into a
\* ValidationError (400); any other exception of apply is not caught
Response(via, ret) ==
  CASE ret.exc = "" -> IF via = VIA_CREATE THEN 201 ELSE 200
    [] ret.exc \in {"IntegrityError", "ValidationError"} -> 400
    [] ret.exc = "Http404" -> 404
    [] OTHER -> 500

\* the request is answered without apply being called
Refuse(c, r, ret) ==
  /\ last' = [args |-> r, ret |-> ret]
  /\ ndone' = ndone + 1
  /\ UNCHANGED <<pc, args, uuids>>

\* POST movimientos/ (MovimientoListCreateView) or PATCH
\* productos/<pk>/stock/ (ProductoStockUpdateView): get_object, is_valid,
\* then apply is entered
Post(c, r) ==
  /\ pc[c] = "idle"
  /\ left > 0
  /\ left' = left - 1
  /\ IF r.via = VIA_STOCK /\ r.producto \notin rows
     THEN Refuse(c, r, Raise("Http404"))
     ELSE IF \/ r.via = VIA_CREATE /\ ~ValidCreate(r)
             \/ r.via = VIA_STOCK /\ ~ValidStockUpdate(r)
     THEN Refuse(c, r, Raise("ValidationError"))
     ELSE Enter(c, r)
  /\ UNCHANGED <<stock, ledger, lock, nextId, p, mv, stock0>>
  /\ UNCHANGED catalog

\* PUT/PATCH productos/<pk>/ (ProductoDetailView), first half: get_object()
\* reads the row and is_valid() checks the body
EditGet(x, d) ==
  /\ edit = NoEdit
  /\ left > 0
  /\ x \in rows
  /\ left' = left - 1
  /\ edit' = IF ValidBody(d)
             THEN [pk |-> x, stock |-> UpdatedStock(d, stock[x]),
                   categoria |-> categoria[x],
                   min_stock |-> Field(d, "min_stock", min_stock[x]),
                   max_stock |-> Field(d, "max_stock", max_stock[x]),
                   coste_precio |-> Field(d, "coste_precio", coste_precio[x]),
                   venta_precio |-> Field(d, "venta_precio", venta_precio[x])]
             ELSE NoEdit
  /\ resp' = IF ValidBody(d) THEN resp ELSE Answer("producto-edit", x, 400)
  /\ UNCHANGED <<stock, ledger, lock, nextId, uuids, pc, args, p, mv, last, ndone,
                 stock0, rows, nextPk, parent, categoria, columns, nextCat, aside>>

\* second half: serializer.save() -> instance.save() writes every column of
\* the instance read by get_object(); Model.save() INSERTs when its UPDATE
\* matches no row; a category deleted meanwhile fails the foreign key, and
\* a row against Meta.constraints fails its CHECK (IntegrityError, nothing
\* is written)
EditSave ==
  /\ edit # NoEdit
  /\ Lockable(edit.pk)
  /\ IF \/ edit.categoria # 0 /\ parent[edit.categoria] = NoRow
        \/ ~RowCheck(edit.min_stock, edit.max_stock)
     THEN /\ resp' = Answer("producto-edit", edit.pk, 500)
          /\ UNCHANGED <<stock, rows, categoria, columns>>
     ELSE /\ resp' = Answer("producto-edit", edit.pk, 200)
          /\ stock' = [stock EXCEPT ![edit.pk] = edit.stock]
          /\ categoria' = [categoria EXCEPT ![edit.pk] = edit.categoria]
          /\ rows' = rows \cup {edit.pk}
          /\ min_stock' = [min_stock EXCEPT ![edit.pk] = edit.min_stock]
          /\ max_stock' = [max_stock EXCEPT ![edit.pk] = edit.max_stock]
          /\ coste_precio' = [coste_precio EXCEPT ![edit.pk] = edit.coste_precio]
          /\ venta_precio' = [venta_precio EXCEPT ![edit.pk] = edit.venta_precio]
  /\ edit' = NoEdit
  /\ UNCHANGED <<ledger, lock, nextId, uuids, pc, args, p, mv, last, ndone, left,
                 stock0, nextPk, parent, nextCat, aside>>

\* POST productos/ (ProductoListCreateView with ProductoCreateSerializer)
ProductoCreate(d) ==
  /\ left > 0
  /\ nextPk \in Productos
  /\ left' = left - 1
  /\ IF /\ ValidBody(d)
        /\ RowCheck(Field(d, "min_stock", MinStockDefault), Field(d, "max_stock", NoMax))
     THEN /\ resp' = Answer("producto-create", nextPk, 201)
          /\ rows' = rows \cup {nextPk}
          /\ stock' = [stock EXCEPT ![nextPk] = CreatedStock(d)]
          /\ min_stock' = [min_stock EXCEPT
                             ![nextPk] = Field(d, "min_stock", MinStockDefault)]
          /\ max_stock' = [max_stock EXCEPT ![nextPk] = Field(d, "max_stock", NoMax)]
          /\ coste_precio' = [coste_precio EXCEPT
                                ![nextPk] = Field(d, "coste_precio", 0)]
          /\ venta_precio' = [venta_precio EXCEPT
                                ![nextPk] = Field(d, "venta_precio", 0)]
          /\ nextPk' = nextPk + 1
     ELSE /\ resp' = Answer("producto-create", 0, IF ValidBody(d) THEN 500 ELSE 400)
          /\ UNCHANGED <<rows, stock, nextPk, columns>>
  /\ UNCHANGED <<ledger, lock, nextId, uuids, pc, args, p, mv, last, ndone, stock0,
                 parent, categoria, edit, nextCat, aside>>

\* DELETE productos/<pk>/ (ProductoDetailView): instance.delete() collects
\* the InventarioMovimiento rows of the product (on_delete=CASCADE) and
\* deletes them with it; the DELETE waits for the row lock
ProductoDelete(x) ==
  /\ left > 0
  /\ x \in rows
  /\ Lockable(x)
  /\ left' = left - 1
  /\ rows' = rows \ {x}
  /\ ledger' = SelectSeq(ledger, LAMBDA m : m.producto # x)
  /\ stock' = [stock EXCEPT ![x] = 0]
  /\ categoria' = [categoria EXCEPT ![x] = 0]
  /\ min_stock' = [min_stock EXCEPT ![x] = MinStockDefault]
  /\ max_stock' = [max_stock EXCEPT ![x] = NoMax]
  /\ coste_precio' = [coste_precio EXCEPT ![x] = 0]
  /\ venta_precio' = [venta_precio EXCEPT ![x] = 0]
  /\ resp' = Answer("producto-delete", x, 204)
  /\ UNCHANGED <<lock, nextId, uuids, pc, args, p, mv, last, ndone, stock0,
                 nextPk, parent, edit, nextCat, aside>>

\* the table of categories is written after an evaluation of nivel began
Touched(w) == IF w = NoWalk THEN w ELSE [w EXCEPT !.moved = TRUE]

RECURSIVE Cascade(_)
\* the categories deleted with those of S: parent is on_delete=CASCADE
Cascade(S) ==
  LET T == S \cup {j \in Categorias : parent[j] \in S}
  IN IF T = S THEN S ELSE Cascade(T)

\* DELETE categorias/<pk>/ (CategoriaDetailView): the products of the
\* deleted categories keep their rows, categoria becomes NULL (SET_NULL)
CategoriaDelete(k) ==
  /\ left > 0
  /\ parent[k] # NoRow
  /\ \A x \in rows : categoria[x] \in Cascade({k}) => Lockable(x)
  /\ left' = left - 1
  /\ parent' = [j \in Categorias |-> IF j \in Cascade({k}) THEN NoRow ELSE parent[j]]
  /\ categoria' = [x \in Productos |->
                     IF categoria[x] \in Cascade({k}) THEN 0 ELSE categoria[x]]
  /\ resp' = Answer("categoria-delete", k, 204)
  /\ walk' = Touched(walk)
  /\ UNCHANGED <<stock, ledger, lock, nextId, uuids, pc, args, p, mv, last, ndone,
                 stock0, rows, nextPk, edit, columns, nextCat, view, legacy>>

\* requests of the API specification: both serializer paths, and direct calls
PostRequests ==
  ApiRequests({VIA_CREATE, VIA_STOCK}, Productos, Tipos, {-1, 0, 2}, {Absent, 1})

DirectRequests == Requests(Productos, {MOV_IN, "XX"}, {2}, {Absent, 1})

\* stock values of the product create and edit bodies
PayloadStocks == {-1, 7}

\* product 1 exists, in category 2, a child of category 1; product 2 is
\* created later
InitApi ==
  /\ InitApply({[x \in Productos |-> IF x = 1 THEN 1 ELSE 0]}, MaxCalls)
  /\ rows = {1}
  /\ nextPk = 2
  /\ parent = [k \in Categorias |-> k - 1]
  /\ nextCat = 4
  /\ categoria = [x \in Productos |-> IF x = 1 THEN 2 ELSE 0]
  /\ edit = NoEdit
  /\ InitColumns

NextApi ==
  \/ NextWith({1}, DirectRequests)
  \/ \E r \in PostRequests : Post(1, r)
  \/ \E x \in Productos, d \in Payloads(PayloadStocks) : EditGet(x, d)
  \/ EditSave
  \/ \E d \in Payloads(PayloadStocks) : ProductoCreate(d)
  \/ \E x \in Productos : ProductoDelete(x)
  \/ \E k \in Categorias : CategoriaDelete(k)

SpecApi == InitApi /\ [][NextApi]_vars

(* --------------------------- product catalogue ------------------------- *)
\* Producto.bajo_stock
BajoStock(st, min) == st <= min

\* mutant: the elif tested before the if
EstadoStockBajoFirst(st, min) ==
  IF BajoStock(st, min) THEN "Bajo"
  ELSE IF st = 0 THEN "Agotado"
  ELSE "Disponible"

\* Producto.estado_stock
EstadoStock(st, min) ==
  IF st = 0 THEN "Agotado"
  ELSE IF BajoStock(st, min) THEN "Bajo"
  ELSE "Disponible"

\* GET productos/<pk>/ (ProductoDetailView): ProductoSerializer computes
\* bajo_stock and estado_stock (ReadOnlyField) from the row it read
Retrieve(x) ==
  /\ x \in rows
  /\ view' = [pk |-> x, stock |-> stock[x], min_stock |-> min_stock[x],
              bajo_stock |-> BajoStock(stock[x], min_stock[x]),
              estado_stock |-> EstadoStock(stock[x], min_stock[x])]
  /\ UNCHANGED <<stock, ledger, lock, nextId, uuids, pc, args, p, mv, last, ndone, left,
                 stock0, rows, nextPk, parent, categoria, edit, columns, nextCat,
                 walk, legacy, resp>>

\* the keys of a body that sets every column modelled here
AllKeys == {"stock", "min_stock", "max_stock", "coste_precio", "venta_precio"}

\* bodies of the catalogue specification: an empty one, full ones, and one
\* that raises min_stock only
ProdBodies ==
  Bodies({{}}, {0}, {0}, {0}, {0}, {0})
    \cup Bodies({AllKeys}, {0, 3}, {-1, 2, 5}, {NoMax, 3}, {1}, {1, 2})
    \cup Bodies({{"min_stock"}}, {0}, {5}, {0}, {0}, {0})

\* no product yet; three categories, all roots
InitProd ==
  /\ InitApply({[x \in Productos |-> 0]}, MaxChain)
  /\ rows = {}
  /\ nextPk = 1
  /\ parent = [k \in Categorias |-> 0]
  /\ nextCat = 4
  /\ categoria = [x \in Productos |-> 0]
  /\ edit = NoEdit
  /\ InitColumns

NextProd ==
  \/ \E d \in ProdBodies : ProductoCreate(d)
  \/ \E x \in Productos, d \in ProdBodies : EditGet(x, d)
  \/ EditSave
  \/ \E x \in Productos : Retrieve(x)

SpecProd == InitProd /\ [][NextProd]_vars

(* ------------------------------ categories ----------------------------- *)
\* mutant: Categoria without Meta.constraints
ParentCheckNone(k, par) == TRUE

\* mutant: a constraint that also refuses a parent below the category
ParentCheckNoDescendant(k, par) == par \notin Cascade({k})

\* Categoria.Meta.constraints: categoria_parent_not_self,
\* CHECK (NOT (parent_id = id)), which a NULL parent passes
ParentCheck(k, par) == par # k

\* CategoriaSerializer.is_valid: `parent` is a PrimaryKeyRelatedField
\* (null allowed) over the existing categories
ValidParent(par) == par = 0 \/ (par \in Categorias /\ parent[par] # NoRow)

\* POST categorias/ (CategoriaListCreateView)
CategoriaCreate(par) ==
  /\ left > 0
  /\ nextCat \in Categorias
  /\ left' = left - 1
  /\ IF ValidParent(par)
     THEN /\ parent' = [parent EXCEPT ![nextCat] = par]
          /\ nextCat' = nextCat + 1
          /\ resp' = Answer("categoria-create", nextCat, 201)
          /\ walk' = Touched(walk)
     ELSE /\ resp' = Answer("categoria-create", 0, 400)
          /\ UNCHANGED <<parent, nextCat, walk>>
  /\ UNCHANGED <<stock, ledger, lock, nextId, uuids, pc, args, p, mv, last, ndone,
                 stock0, rows, nextPk, categoria, edit, columns, view, legacy>>

\* PUT/PATCH categorias/<pk>/ (CategoriaDetailView) with a body that sets
\* parent, taken as one step: get_object(), is_valid(), then the UPDATE,
\* which the CHECK of the table may refuse (IntegrityError)
CategoriaUpdate(k, par) ==
  /\ left > 0
  /\ parent[k] # NoRow
  /\ left' = left - 1
  /\ IF ~ValidParent(par)
     THEN /\ resp' = Answer("categoria-update", k, 400)
          /\ UNCHANGED <<parent, walk>>
     ELSE IF ~ParentCheck(k, par)
     THEN /\ resp' = Answer("categoria-update", k, 500)
          /\ UNCHANGED <<parent, walk>>
     ELSE /\ parent' = [parent EXCEPT ![k] = par]
          /\ resp' = Answer("categoria-update", k, 200)
          /\ walk' = Touched(walk)
  /\ UNCHANGED <<stock, ledger, lock, nextId, uuids, pc, args, p, mv, last, ndone,
                 stock0, rows, nextPk, categoria, edit, columns, nextCat, view, legacy>>

\* Categoria.es_raiz
EsRaiz(k) == parent[k] = 0

\* mutant: `while current:` in place of `while current.parent:`
NivelNextCountsSelf(w) ==
  IF w.current # 0
  THEN [w EXCEPT !.nivel = @ + 1, !.current = parent[w.current]]
  ELSE [w EXCEPT !.returned = TRUE]

\* one turn of the loop of Categoria.nivel: `while current.parent:` reads
\* the parent row; `nivel += 1; current = current.parent`, or `return nivel`
NivelNext(w) ==
  IF parent[w.current] # 0
  THEN [w EXCEPT !.nivel = @ + 1, !.current = parent[w.current]]
  ELSE [w EXCEPT !.returned = TRUE]

\* the properties es_raiz and nivel of the Categoria k are evaluated:
\* `nivel = 0; current = self`
NivelStart(k) ==
  /\ walk = NoWalk \/ walk.returned
  /\ parent[k] # NoRow
  /\ walk' = [de |-> k, current |-> k, nivel |-> 0, es_raiz |-> EsRaiz(k),
              returned |-> FALSE, moved |-> FALSE]
  /\ UNCHANGED <<stock, ledger, lock, nextId, uuids, pc, args, p, mv, last, ndone, left,
                 stock0, rows, nextPk, parent, categoria, edit, columns, nextCat,
                 view, legacy, resp>>

\* the loop of nivel, one turn per step; the count is followed up to MaxNivel
NivelStep ==
  /\ walk # NoWalk
  /\ ~walk.returned
  /\ walk.nivel < MaxNivel
  /\ walk.current # 0
  /\ parent[walk.current] # NoRow
  /\ walk' = NivelNext(walk)
  /\ UNCHANGED <<stock, ledger, lock, nextId, uuids, pc, args, p, mv, last, ndone, left,
                 stock0, rows, nextPk, parent, categoria, edit, columns, nextCat,
                 view, legacy, resp>>

\* category 1 exists, as a root; the others are created later
InitCat ==
  /\ InitApply({[x \in Productos |-> 0]}, MaxChain)
  /\ rows = {}
  /\ nextPk = 1
  /\ parent = [k \in Categorias |-> IF k = 1 THEN 0 ELSE NoRow]
  /\ nextCat = 2
  /\ categoria = [x \in Productos |-> 0]
  /\ edit = NoEdit
  /\ InitColumns

NextCat ==
  \/ \E par \in Categorias \cup {0} : CategoriaCreate(par)
  \/ \E k \in Categorias, par \in Categorias \cup {0} : CategoriaUpdate(k, par)
  \/ \E k \in Categorias : NivelStart(k)
  \/ NivelStep

SpecCat == InitCat /\ [][NextCat]_vars

(* --------------------------- signal variant ---------------------------- *)
\* InventarioMovimiento.clean, which validar_movimiento_antes_de_guardar
\* runs before the row is written: TRUE when it raises nothing
MovimientoClean(tipo, cant) ==
  /\ tipo \in {MOV_IN, MOV_OUT} => cant > 0
  /\ tipo = MOV_ADJ => cant >= 0

\* InventarioMovimiento.objects.create(producto=x, ...) with the receivers
\* of signals.py connected: pre_save validates, the row is inserted, the
\* post_save receiver (created=True) rewrites the stock of the product
LegacyCreate(x, tipo, cant) ==
  /\ left > 0
  /\ left' = left - 1
  /\ x \in rows
  /\ IF ~MovimientoClean(tipo, cant) \/ ~PositiveIntegerField(cant)
     THEN /\ legacy' = [NoLegacy EXCEPT !.movimiento_tipo = tipo, !.cantidad = cant,
                                        !.before = stock[x], !.stock = stock[x],
                                        !.raised = TRUE]
          /\ UNCHANGED <<stock, ledger, nextId>>
     ELSE /\ ledger' = Append(ledger, [id |-> nextId, producto |-> x,
                                       movimiento_tipo |-> tipo, cantidad |-> cant,
                                       operation_id |-> Absent])
          /\ nextId' = nextId + 1
          /\ stock' = [stock EXCEPT ![x] = HookStock(TRUE, tipo, stock[x], cant)]
          /\ legacy' = [created |-> TRUE, movimiento_tipo |-> tipo, cantidad |-> cant,
                        before |-> stock[x],
                        stock |-> HookStock(TRUE, tipo, stock[x], cant),
                        saved |-> TRUE, raised |-> FALSE]
  /\ UNCHANGED <<lock, uuids, pc, args, p, mv, last, ndone, stock0, rows, nextPk,
                 parent, categoria, edit, columns, nextCat, view, walk, resp>>

\* mv.save() on the stored Movement i: the UPDATE of the row, then the
\* post_save receiver with created=False
LegacyResave(i) ==
  /\ left > 0
  /\ left' = left - 1
  /\ i \in 1..Len(ledger)
  /\ LET m == ledger[i] IN
     /\ stock' = [stock EXCEPT ![m.producto] =
                    HookStock(FALSE, m.movimiento_tipo, stock[m.producto], m.cantidad)]
     /\ legacy' = [created |-> FALSE, movimiento_tipo |-> m.movimiento_tipo,
                   cantidad |-> m.cantidad, before |-> stock[m.producto],
                   stock |-> HookStock(FALSE, m.movimiento_tipo, stock[m.producto],
                                       m.cantidad),
                   saved |-> FALSE, raised |-> FALSE]
  /\ UNCHANGED <<ledger, lock, nextId, uuids, pc, args, p, mv, last, ndone, stock0,
                 rows, nextPk, parent, categoria, edit, columns, nextCat, view, walk,
                 resp>>

\* quantities of the Movements saved through the signal variant
LegacyCantidades == {0, 1, 3}

InitLegacy == InitWith({[x \in Productos |-> s] : s \in {0, 2}}, MaxChain)

NextLegacy ==
  \/ \E tipo \in MOVEMENT_TYPES, cant \in LegacyCantidades : LegacyCreate(1, tipo, cant)
  \/ \E i \in 1..MaxChain : LegacyResave(i)

SpecLegacy == InitLegacy /\ [][NextLegacy]_vars

(* --------------------------- claim vocabulary -------------------------- *)
HasOp(l, op) == \E i \in 1..Len(l) : l[i].operation_id = op

RowWith(l, op) == l[CHOOSE i \in 1..Len(l) : l[i].operation_id = op]

CountOp(l, op) == Cardinality({i \in 1..Len(l) : l[i].operation_id = op})

\* the call c completes (returns or raises) in this step
Completes(c) == pc[c] # "idle" /\ pc'[c] = "idle"

RECURSIVE Replay(_, _, _)
\* the stock of product x after the movements of l, in order, from s
Replay(s, l, x) ==
  IF l = <<>> THEN s
  ELSE LET m == Head(l) IN
       Replay(IF m.producto # x THEN s
              ELSE IF m.movimiento_tipo = MOV_IN THEN s + m.cantidad
              ELSE IF m.movimiento_tipo = MOV_OUT THEN s - m.cantidad
              ELSE m.cantidad,
              Tail(l), x)

RECURSIVE SumCantidad(_)
SumCantidad(l) == IF l = <<>> THEN 0 ELSE Head(l).cantidad + SumCantidad(Tail(l))

InsufficientMsg == "Stock insuficiente para salida."

(* -------------------------------- C1 ----------------------------------- *)
\* C1: with one caller at a time, a call whose caller-supplied operation_id
\* k already has a Movement returns that very Movement (same id) without
\* an error and changes neither stock nor ledger; every call that returns a
\* Movement returns the single ledger row with operation_id k.
C1_IdempotentSequential ==
  [][\A c \in Calls :
       (Completes(c) /\ args[c].operation_id > 0) =>
         LET k == args[c].operation_id IN
           /\ HasOp(ledger, k) =>
                /\ last'.ret.exc = ""
                /\ last'.ret.mv = RowWith(ledger, k)
                /\ stock' = stock
                /\ ledger' = ledger
           /\ last'.ret.exc = "" =>
                /\ CountOp(ledger', k) = 1
                /\ last'.ret.mv = RowWith(ledger', k)]_vars

\* the same arguments were applied twice: the second call returned the row
\* the first one created, and the stock shows one application
C1_Witness ==
  /\ ndone = 2
  /\ Len(ledger) = 1
  /\ last.ret.how = "existing"
  /\ last.ret.mv = ledger[1]
  /\ last.args.operation_id > 0
  /\ last.args.producto = ledger[1].producto
  /\ last.args.movimiento_tipo = MOV_IN
  /\ ledger[1].movimiento_tipo = MOV_IN
  /\ last.args.cantidad = ledger[1].cantidad
  /\ stock[ledger[1].producto] = stock0[ledger[1].producto] + ledger[1].cantidad

(* -------------------------------- C2 ----------------------------------- *)
\* C2: in every reachable state the committed stock of every product is >= 0,
\* whatever kinds and (also negative) quantities the calls passed.
C2_NonNegativeStock == \A x \in Productos : stock[x] >= 0

\* a call with a negative quantity lowered the stock inside its transaction
\* to zero and was then rejected
C2_Witness ==
  /\ last.args.cantidad < 0
  /\ last.args.movimiento_tipo = MOV_IN
  /\ last.ret.exc = "IntegrityError"
  /\ stock[last.args.producto] + last.args.cantidad >= 0

(* -------------------------------- C3 ----------------------------------- *)
\* C3: concurrent OUT calls with distinct operation ids against one product:
\* the quantities of the calls that succeeded add up to at most the stock at
\* the start, the committed stock is the start minus that sum, a call fails
\* only with "insufficient stock" and only when its quantity exceeds the
\* stock; two OUT of 6 against 10 end with one Movement, one failure, stock 4.
C3_NoDoubleSpend ==
  /\ SumCantidad(ledger) <= stock0[1]
  /\ stock[1] = stock0[1] - SumCantidad(ledger)
  /\ last.ret.exc # "" =>
       /\ last.ret.msg = InsufficientMsg
       /\ last.args.cantidad > stock[1]
  /\ ( /\ ndone = 2
       /\ InFlight = {}
       /\ last.args.cantidad = 6
       /\ \A i \in 1..Len(ledger) : ledger[i].cantidad = 6 ) =>
       /\ Len(ledger) = 1
       /\ last.ret.msg = InsufficientMsg
       /\ stock[1] = 4

\* both calls of 6 completed: one Movement, one failure, stock 4
C3_Witness ==
  /\ ndone = 2
  /\ InFlight = {}
  /\ Len(ledger) = 1
  /\ ledger[1].cantidad = 6
  /\ last.args.cantidad = 6
  /\ last.ret.msg = InsufficientMsg
  /\ stock[1] = 4

(* -------------------------------- C4 ----------------------------------- *)
\* C4: a call that holds the row lock works on the committed stock: before
\* its computation p.stock is the committed stock, after it p.stock is the
\* new stock computed from the committed stock (nobody committed a change of
\* that product in between, nobody reads an uncommitted value); so the
\* committed stock of every product is the one a sequential execution of the
\* committed calls, in commit order, gives.
C4_NoLostUpdate ==
  /\ \A c \in Calls :
       /\ pc[c] = "compute" => p[c] = stock[args[c].producto]
       /\ pc[c] \in {"insert", "commit"} =>
            p[c] = NewStock(args[c].movimiento_tipo, stock[args[c].producto],
                            args[c].cantidad)
  /\ \A x \in Productos : stock[x] = Replay(stock0[x], ledger, x)

\* two IN calls on the same product both committed, the second one having
\* started before the first was committed (its generated operation id is the
\* older one): the stock grew by both quantities
C4_Witness ==
  /\ Len(ledger) = 2
  /\ ledger[1].producto = ledger[2].producto
  /\ ledger[1].movimiento_tipo = MOV_IN
  /\ ledger[2].movimiento_tipo = MOV_IN
  /\ ledger[1].operation_id = -2
  /\ ledger[2].operation_id = -1
  /\ stock[ledger[1].producto] =
       stock0[ledger[1].producto] + ledger[1].cantidad + ledger[2].cantidad

(* -------------------------------- C5 ----------------------------------- *)
\* C5: in every reachable state no two Movements share an operation_id, and
\* every step that changes a committed stock appends exactly one Movement,
\* with an operation_id no Movement had, and changes only its product's stock.
C5_AtMostOnePerOperation ==
  /\ [](\A i, j \in 1..Len(ledger) :
          i # j => ledger[i].operation_id # ledger[j].operation_id)
  /\ [][stock' # stock =>
          /\ Len(ledger') = Len(ledger) + 1
          /\ SubSeq(ledger', 1, Len(ledger)) = ledger
          /\ ~HasOp(ledger, ledger'[Len(ledger')].operation_id)
          /\ \A x \in Productos :
               x # ledger'[Len(ledger')].producto => stock'[x] = stock[x]]_vars

\* two calls with the same operation_id raced: one Movement, and the loser
\* was stopped by the UNIQUE index after it had passed the lookup
C5_Witness ==
  /\ ndone = 2
  /\ Len(ledger) = 1
  /\ last.args.operation_id = ledger[1].operation_id
  /\ last.ret.msg = "UNIQUE operation_id"
  /\ stock[ledger[1].producto] = Replay(stock0[ledger[1].producto], ledger,
                                         ledger[1].producto)

(* -------------------------------- C6 ----------------------------------- *)
\* C6: no caller of a racing duplicate receives an error: a call whose INSERT
\* meets the uniqueness violation of its operation_id returns the Movement
\* the winner created.
C6_RacingDuplicateTransparent ==
  [][\A c \in Calls :
       (Completes(c) /\ pc[c] = "insert"
          /\ UniqueViolation(args[c].operation_id)
          /\ PositiveIntegerField(args[c].cantidad)) =>
         /\ last'.ret.exc = ""
         /\ last'.ret.mv = RowWith(ledger, args[c].operation_id)]_vars

(* -------------------------------- C7 ----------------------------------- *)
\* C7: when a call of kind OUT, holding the row lock, finds the committed
\* stock below its quantity, it raises "insufficient stock", which the
\* stock-update endpoint answers with HTTP 400, and the committed stock of
\* every product and the ledger stay as they were (nothing is clamped to 0).
C7_InsufficientOutFails ==
  [][\A c \in Calls :
       ( /\ pc[c] = "compute" /\ pc'[c] # "compute"
         /\ args[c].movimiento_tipo = MOV_OUT
         /\ stock[args[c].producto] < args[c].cantidad ) =>
         /\ last'.ret.exc = "IntegrityError"
         /\ last'.ret.msg = InsufficientMsg
         /\ StockUpdateStatus(last'.ret) = 400
         /\ stock' = stock
         /\ ledger' = ledger
         /\ pc'[c] = "idle"]_vars

\* stock 0, OUT 1: rejected, stock still 0, no Movement
C7_Witness ==
  /\ ndone = 1
  /\ last.args.movimiento_tipo = MOV_OUT
  /\ last.args.cantidad = 1
  /\ last.ret.msg = InsufficientMsg
  /\ stock0[last.args.producto] = 0
  /\ stock[last.args.producto] = 0
  /\ ledger = <<>>

(* -------------------------------- C8 ----------------------------------- *)
\* C8: the commit of a call on a product whose committed stock is s leaves
\* s + q for IN, s - q (with q <= s) for OUT and exactly q for ADJ, and
\* appends the Movement of the call.
C8_KindSemantics ==
  [][\A c \in Calls :
       (pc[c] = "commit" /\ pc'[c] = "idle") =>
         LET x == args[c].producto
             q == args[c].cantidad
             s == stock[x]
         IN /\ args[c].movimiento_tipo = MOV_IN => stock'[x] = s + q
            /\ args[c].movimiento_tipo = MOV_OUT => q <= s /\ stock'[x] = s - q
            /\ args[c].movimiento_tipo = MOV_ADJ => stock'[x] = q
            /\ args[c].movimiento_tipo \in MOVEMENT_TYPES
            /\ Len(ledger') = Len(ledger) + 1
            /\ last'.ret.how = "created"]_vars

\* 5 -IN 3-> 8 -OUT 3-> 5 -ADJ 12-> 12
C8_Witness ==
  /\ stock0[1] = 5
  /\ Len(ledger) = 3
  /\ ledger[1].movimiento_tipo = MOV_IN /\ ledger[1].cantidad = 3
  /\ ledger[2].movimiento_tipo = MOV_OUT /\ ledger[2].cantidad = 3
  /\ ledger[3].movimiento_tipo = MOV_ADJ /\ ledger[3].cantidad = 12
  /\ stock[1] = 12

(* -------------------------------- C9 ----------------------------------- *)
\* C9: right after a call failed at the INSERT of its Movement (CHECK on
\* cantidad, UNIQUE on operation_id), when its transaction has ended and the
\* row is unlocked, the committed stock of its product is the stock its
\* Movements give: the stock the call had written is not there.
InsertErrors == {"CHECK cantidad >= 0", "UNIQUE operation_id"}

C9_Atomicity ==
  ( /\ last.ret.msg \in InsertErrors
    /\ lock[last.args.producto] = 0 ) =>
    stock[last.args.producto] =
      Replay(stock0[last.args.producto], ledger, last.args.producto)

\* OUT with a negative quantity: the stock was raised inside the
\* transaction, the INSERT failed, the stock is the one before the call
C9_Witness ==
  /\ ndone = 1
  /\ last.args.movimiento_tipo = MOV_OUT
  /\ last.args.cantidad < 0
  /\ last.ret.msg = "CHECK cantidad >= 0"
  /\ ledger = <<>>
  /\ stock = stock0

(* -------------------------------- C10 ---------------------------------- *)
\* C10: a call whose lookup finds a Movement with its operation_id returns
\* that Movement as stored, and changes no stock and no Movement, whatever
\* its product, kind and quantity are.
C10_ReplayIgnoresParameters ==
  [][\A c \in Calls :
       (pc[c] = "lookup" /\ pc'[c] # "lookup"
          /\ HasOp(ledger, args[c].operation_id)) =>
         /\ pc'[c] = "idle"
         /\ last'.ret.exc = ""
         /\ last'.ret.mv = RowWith(ledger, args[c].operation_id)
         /\ stock' = stock
         /\ ledger' = ledger]_vars

\* a replay that named another product, an unsupported kind and another
\* quantity returned the stored Movement
C10_Witness ==
  /\ Len(ledger) = 1
  /\ last.ret.how = "existing"
  /\ last.ret.mv = ledger[1]
  /\ last.args.operation_id = ledger[1].operation_id
  /\ last.args.producto # ledger[1].producto
  /\ last.args.movimiento_tipo \notin MOVEMENT_TYPES
  /\ last.args.cantidad # ledger[1].cantidad
  /\ \A x \in Productos : stock[x] = Replay(stock0[x], ledger, x)

(* -------------------------------- C11 ---------------------------------- *)
\* the call c commits in this step
Commits(c) == pc[c] = "commit" /\ pc'[c] = "idle"

\* C11: stock has a single writer.  The stock of a product whose row exists
\* before and after a step changes only when an apply call on that product
\* commits; in particular the product-edit flow (ProductoSerializer behind
\* PUT/PATCH of ProductoDetailView) never changes it, whatever stock the
\* body carries.
C11_StockSingleWriter ==
  [][\A x \in Productos :
       (x \in rows /\ x \in rows' /\ stock'[x] # stock[x]) =>
         \E c \in Calls : Commits(c) /\ args[c].producto = x]_vars

(* -------------------------------- C12 ---------------------------------- *)
\* C12: the ledger is append-only.  Every committed Movement is still in the
\* ledger, with all its fields, after every step of every API operation
\* (movement create, stock update, product edit, product delete, category
\* delete).
C12_AppendOnlyLedger ==
  [][\A i \in 1..Len(ledger) : \E j \in 1..Len(ledger') : ledger'[j] = ledger[i]]_vars

(* -------------------------------- C13 ---------------------------------- *)
\* C13: every apply call of kind IN or OUT with quantity <= 0 ends with an
\* error of apply, creates no Movement and leaves the stock unchanged.
C13_InvalidQuantityRejected ==
  [][\A c \in Calls :
       ( /\ Completes(c)
         /\ args[c].movimiento_tipo \in {MOV_IN, MOV_OUT}
         /\ args[c].cantidad <= 0 ) =>
         /\ last'.ret.exc = "IntegrityError"
         /\ ledger' = ledger
         /\ stock' = stock]_vars

(* -------------------------------- C14 ---------------------------------- *)
UnsupportedMsg == "Tipo de movimiento no soportado."

\* C14 as stated: every apply call whose kind is not IN, OUT or ADJ ends
\* with the unsupported-kind error, creates no Movement and leaves every
\* stock unchanged.
C14_UnsupportedKindAlways ==
  [][\A c \in Calls :
       (Completes(c) /\ args[c].movimiento_tipo \notin MOVEMENT_TYPES) =>
         /\ last'.ret = Err(UnsupportedMsg)
         /\ ledger' = ledger
         /\ stock' = stock]_vars

\* C14, amended: a call whose kind is not IN, OUT or ADJ never creates a
\* Movement and never changes a stock.  It ends with the unsupported-kind
\* error when it is not a replay and its product exists: a call whose
\* operation_id is found recorded by the lookup returns the recorded
\* Movement (the lookup comes first), and a call that finds no product row
\* ends with DoesNotExist (the row is fetched before the kind is looked at).
C14_UnsupportedKindRejected ==
  [][\A c \in Calls :
       (Completes(c) /\ args[c].movimiento_tipo \notin MOVEMENT_TYPES) =>
         /\ ledger' = ledger
         /\ stock' = stock
         /\ last'.ret =
              IF pc[c] = "lookup" THEN Ok(Existing(c), "existing")
              ELSE IF pc[c] = "lock" /\ args[c].producto \notin rows
                   THEN Raise("DoesNotExist")
              ELSE Err(UnsupportedMsg)]_vars

\* a call with an unsupported kind, a caller-supplied operation_id and an
\* existing product has ended with the unsupported-kind error
C14_Witness ==
  /\ last.args.movimiento_tipo \notin MOVEMENT_TYPES
  /\ last.args.operation_id > 0
  /\ last.args.producto \in rows
  /\ last.ret = Err(UnsupportedMsg)
  /\ ledger = <<>>

(* -------------------------------- C15 ---------------------------------- *)
\* a request that came through one of the two serializers is answered in
\* this step
Answered == ndone' = ndone + 1 /\ last'.args.via \in {VIA_CREATE, VIA_STOCK}

\* C15: on both serializer paths an ADJ request on an existing product with
\* quantity q >= 0, q = 0 included, is accepted, and when it creates its
\* Movement the stock becomes exactly q; one with q < 0 is refused as
\* invalid.
C15_AdjAcceptsNonNegative ==
  [][( /\ Answered
       /\ last'.args.movimiento_tipo = MOV_ADJ
       /\ last'.args.producto \in rows ) =>
       IF last'.args.cantidad >= 0
       THEN /\ last'.ret.exc = ""
            /\ last'.ret.how = "created" =>
                 stock'[last'.args.producto] = last'.args.cantidad
       ELSE last'.ret.exc = "ValidationError"]_vars

(* -------------------------------- C16 ---------------------------------- *)
\* C16: a call made without operation_id runs under a generated token (a
\* negative number here) and is never treated as a replay: when it succeeds
\* it has appended its own Movement, carrying that token, and has applied
\* its quantity to the stock, however many calls with the same arguments
\* came before.  Every committed Movement carries an operation_id, and no
\* two carry the same.
C16_AbsentIdNeverReplay ==
  /\ [](\A i \in 1..Len(ledger) :
          /\ ledger[i].operation_id # Absent
          /\ \A j \in 1..Len(ledger) :
               ledger[i].operation_id = ledger[j].operation_id => i = j)
  /\ [][\A c \in Calls :
          (Completes(c) /\ args[c].operation_id < 0) =>
            /\ last'.ret.how # "existing"
            /\ last'.ret.exc = "" =>
                 /\ ledger' = Append(ledger, last'.ret.mv)
                 /\ last'.ret.mv.operation_id = args[c].operation_id
                 /\ stock'[args[c].producto] =
                      NewStock(args[c].movimiento_tipo, stock[args[c].producto],
                               args[c].cantidad)]_vars

\* two calls without operation_id and with the same arguments (IN 2 on the
\* same product) have both been applied: two Movements, the stock raised twice
C16_Witness ==
  /\ Len(ledger) = 2
  /\ ledger[1].operation_id < 0
  /\ ledger[2].operation_id < 0
  /\ ledger[1].operation_id # ledger[2].operation_id
  /\ ledger[1].producto = ledger[2].producto
  /\ ledger[1].movimiento_tipo = MOV_IN
  /\ ledger[2].movimiento_tipo = MOV_IN
  /\ ledger[1].cantidad = 2
  /\ ledger[2].cantidad = 2
  /\ stock[ledger[1].producto] = stock0[ledger[1].producto] + 4
  /\ last.ret.how = "created"

(* -------------------------------- C17 ---------------------------------- *)
\* C17: a request that came through a serializer and whose product row is
\* gone when apply fetches it is answered like the other failures of apply,
\* with the translated error (HTTP 400), never with an uncaught exception,
\* and changes neither stock nor ledger.
C17_NotFoundTranslated ==
  [][\A c \in Calls :
       ( /\ Completes(c)
         /\ pc[c] = "lock"
         /\ args[c].via \in {VIA_CREATE, VIA_STOCK} ) =>
         /\ Response(args[c].via, last'.ret) = 400
         /\ ledger' = ledger
         /\ stock' = stock]_vars

(* -------------------------------- C18 ---------------------------------- *)
\* C18: with one caller at a time, a call under a caller-supplied
\* operation_id k that is rejected records no Movement and changes no
\* stock; the call under k that succeeds later, once the stock allows it,
\* finds no Movement with k, inserts the only one and takes its quantity
\* from the stock once; every call made after that under k returns that
\* Movement and changes nothing.
C18_SafeRetry ==
  /\ [](\A k \in OpIds : CountOp(ledger, k) <= 1)
  /\ [][\A c \in Calls :
          (Completes(c) /\ args[c].operation_id \in OpIds) =>
            LET k == args[c].operation_id
                x == args[c].producto
            IN IF HasOp(ledger, k)
               THEN /\ last'.ret = Ok(RowWith(ledger, k), "existing")
                    /\ stock' = stock
                    /\ ledger' = ledger
               ELSE IF last'.ret.exc # ""
               THEN /\ stock' = stock
                    /\ ledger' = ledger
               ELSE /\ ledger' = Append(ledger, last'.ret.mv)
                    /\ last'.ret.mv.operation_id = k
                    /\ stock'[x] = stock[x] - args[c].cantidad]_vars

\* three calls are done: an IN, and two OUT under operation_id 1, of which
\* the one that completed last created the Movement; so the other was
\* rejected before it (the stock started at 0)
C18_Witness ==
  /\ ndone = 3
  /\ uuids = 1
  /\ Len(ledger) = 2
  /\ last.args.operation_id = 1
  /\ last.args.movimiento_tipo = MOV_OUT
  /\ last.ret.how = "created"
  /\ stock0[1] = 0
  /\ stock[1] = ledger[1].cantidad - 2

(* -------------------------------- C19 ---------------------------------- *)
\* C19: the only step of apply that changes committed data is the commit
\* of a successful non-replay call, and it appends exactly one Movement,
\* whose product, kind, quantity and operation_id are those of the call,
\* keeps every earlier Movement as it was and changes no stock but that of
\* the call's product.
C19_SideEffects ==
  [][IF \E c \in Calls : Commits(c)
     THEN \A c \in Calls : Commits(c) =>
            /\ Len(ledger') = Len(ledger) + 1
            /\ SubSeq(ledger', 1, Len(ledger)) = ledger
            /\ ledger'[Len(ledger')].producto = args[c].producto
            /\ ledger'[Len(ledger')].movimiento_tipo = args[c].movimiento_tipo
            /\ ledger'[Len(ledger')].cantidad = args[c].cantidad
            /\ ledger'[Len(ledger')].operation_id = args[c].operation_id
            /\ \A x \in Productos \ {args[c].producto} : stock'[x] = stock[x]
     ELSE ledger' = ledger /\ stock' = stock]_vars

\* IN 2 on product 1, then ADJ 2 on product 2: each call left the other
\* product's stock and the other Movement alone
C19_Witness ==
  /\ Len(ledger) = 2
  /\ ledger[1].producto = 1
  /\ ledger[1].movimiento_tipo = MOV_IN
  /\ ledger[1].cantidad = 2
  /\ ledger[2].producto = 2
  /\ ledger[2].movimiento_tipo = MOV_ADJ
  /\ ledger[2].cantidad = 2
  /\ last.ret.mv = ledger[2]
  /\ stock[1] = stock0[1] + 2
  /\ stock[2] = 2

(* -------------------------------- C20 ---------------------------------- *)
\* C20: a product created through ProductoCreateSerializer (POST on the
\* product list) starts with stock 0, whatever stock the body carries.
C20_CreatedWithZeroStock ==
  [][\A x \in Productos :
       (x \notin rows /\ x \in rows' /\ nextPk' = nextPk + 1) => stock'[x] = 0]_vars

(* -------------------------------- C21 ---------------------------------- *)
\* C21: every product written through the create and edit flows has a sale
\* price strictly greater than its cost price (a create or edit with
\* venta_precio <= coste_precio is rejected).
C21_PriceInvariant ==
  \A x \in rows : venta_precio[x] > coste_precio[x]

(* -------------------------------- C22 ---------------------------------- *)
\* the tables of the product catalogue
productTables == <<rows, stock, categoria, min_stock, max_stock, coste_precio, venta_precio>>

\* C22: every stored product has max_stock unset or max_stock >= min_stock.
\* A product edit whose row would have max_stock < min_stock is refused and
\* changes no table, and so does every refused product create.
C22_ThresholdInvariant ==
  /\ [](\A x \in rows : max_stock[x] = NoMax \/ max_stock[x] >= min_stock[x])
  /\ [][( /\ edit # NoEdit
          /\ edit' = NoEdit
          /\ edit.max_stock # NoMax
          /\ edit.max_stock < edit.min_stock ) =>
          /\ resp' = Answer("producto-edit", edit.pk, 500)
          /\ UNCHANGED productTables]_vars
  /\ [][( /\ resp'.op = "producto-create"
          /\ nextPk' = nextPk
          /\ left' # left ) => UNCHANGED productTables]_vars

\* a product stored with min_stock 2 and max_stock 3 has kept them after an
\* edit that raised min_stock to 5 was refused
C22_Witness ==
  /\ resp = Answer("producto-edit", 1, 500)
  /\ 1 \in rows
  /\ min_stock[1] = 2
  /\ max_stock[1] = 3
  /\ edit = NoEdit

(* -------------------------------- C24 ---------------------------------- *)
\* C24: in every product representation, bajo_stock is true exactly when
\* stock <= min_stock, and estado_stock is Agotado exactly when stock = 0,
\* Bajo exactly when 0 < stock <= min_stock and Disponible exactly when
\* stock > min_stock and stock > 0.  Both are computed when the product is
\* read, from the stock and min_stock of its row, and reading writes no table.
C24_DerivedStockState ==
  /\ [](view # NoView =>
          /\ view.bajo_stock <=> (view.stock <= view.min_stock)
          /\ view.estado_stock \in {"Agotado", "Bajo", "Disponible"}
          /\ view.estado_stock = "Agotado" <=> view.stock = 0
          /\ view.estado_stock = "Bajo" <=>
               (0 < view.stock /\ view.stock <= view.min_stock)
          /\ view.estado_stock = "Disponible" <=>
               (view.stock > view.min_stock /\ view.stock > 0))
  /\ [][view' # view =>
          /\ view'.stock = stock[view'.pk]
          /\ view'.min_stock = min_stock[view'.pk]
          /\ UNCHANGED productTables]_vars

\* a product with stock 0 is read as Agotado although its stock is low too
C24_Witness ==
  /\ view.pk \in rows
  /\ view.stock = 0
  /\ view.bajo_stock
  /\ view.estado_stock = "Agotado"

(* ------------------------------ C23 ------------------------------------ *)
\* the categories that have a row
Stored == {k \in Categorias : parent[k] # NoRow}

\* C23: after any sequence of category creations and updates no category
\* is its own parent; an update that names the category itself as parent is
\* refused (the CHECK of the table raises) and leaves every stored parent
\* as it was.
C23_NoSelfParent ==
  /\ [](\A k \in Stored : parent[k] # k)
  /\ [][\A k \in Categorias :
          CategoriaUpdate(k, k) =>
             /\ resp'.status \notin {200, 201}
             /\ parent' = parent]_vars

C23_Witness ==
  /\ resp = Answer("categoria-update", 2, 500)
  /\ parent[2] = 1

(* ------------------------------ C25 ------------------------------------ *)
\* the parents of the categories of S, and S
Up(S) == S \cup ({parent[j] : j \in S} \ {0, NoRow})

RECURSIVE Closure(_)
Closure(S) == IF Up(S) = S THEN S ELSE Closure(Up(S))

\* the categories above k on its parent chain
Ancestors(k) == Closure({parent[k]} \ {0, NoRow})

\* the parent chain of k ends in a category without parent
ReachesRoot(k) == \E a \in Ancestors(k) \cup {k} : parent[a] = 0

\* an evaluation of nivel since whose beginning no category was written
Steady == walk # NoWalk /\ ~walk.moved

SpecCatFair == SpecCat /\ WF_vars(NivelStep)

\* C25: on a category whose parent chain ends in a root, nivel terminates
\* and returns the number of ancestors on the chain (0 for a root, 1 for a
\* child of a root), and es_raiz holds exactly when the category has no
\* parent, which is exactly when nivel returns 0.
C25_CategoryDepth ==
  /\ []((Steady /\ walk.returned) =>
          /\ walk.nivel = Cardinality(Ancestors(walk.de))
          /\ walk.es_raiz = (parent[walk.de] = 0)
          /\ walk.es_raiz = (walk.nivel = 0)
          /\ (parent[walk.de] # 0 /\ parent[parent[walk.de]] = 0 => walk.nivel = 1))
  /\ ((Steady /\ ReachesRoot(walk.de)) ~> (walk # NoWalk /\ (walk.returned \/ walk.moved)))

C25_Witness ==
  /\ Steady
  /\ walk.returned
  /\ walk.nivel = 2
  /\ walk.de = 3
  /\ ~walk.es_raiz

(* ------------------------------ C30 ------------------------------------ *)
\* C30: an update of a category's parent is refused only when the parent
\* is the category itself: every other update to an existing parent is
\* stored, also one that closes a cycle A -> B -> C -> A; and on a
\* category whose chain runs into a cycle the walk of nivel does not
\* return.
C30_CyclesNotPrevented ==
  /\ [][\A k \in Categorias, par \in Categorias :
          (CategoriaUpdate(k, par) /\ par # k /\ parent[par] # NoRow) =>
             /\ parent' = [parent EXCEPT ![k] = par]
             /\ resp' = Answer("categoria-update", k, 200)]_vars
  /\ []((Steady /\ ~ReachesRoot(walk.de)) => ~walk.returned)

C30_Witness ==
  /\ parent[1] = 3
  /\ parent[3] = 2
  /\ parent[2] = 1
  /\ resp = Answer("categoria-update", 1, 200)
  /\ Steady
  /\ walk.de = 1
  /\ walk.nivel = MaxNivel
  /\ ~walk.returned

(* ------------------------------ C26 ------------------------------------ *)
\* C26: in every committed state the stock of each product is what the
\* replay of its Movements, in commit order, gives from its initial stock;
\* a step that changes a committed stock or the committed Movements does
\* both at once: it appends one Movement and gives the product of that
\* Movement, and no other, the stock that Movement's kind yields.
C26_LedgerAndStockAgree ==
  /\ [](\A x \in Productos : Replay(stock0[x], ledger, x) = stock[x])
  /\ [][(stock' # stock \/ ledger' # ledger) =>
          /\ Len(ledger') = Len(ledger) + 1
          /\ SubSeq(ledger', 1, Len(ledger)) = ledger
          /\ LET m == ledger'[Len(ledger')] IN
               stock' = [stock EXCEPT ![m.producto] =
                           NewStock(m.movimiento_tipo, stock[m.producto], m.cantidad)]]_vars

\* IN 2 then OUT 2 on one product, both committed and returned
C26_Witness ==
  /\ Len(ledger) = 2
  /\ ledger[1].producto = ledger[2].producto
  /\ ledger[1].movimiento_tipo = MOV_IN
  /\ ledger[2].movimiento_tipo = MOV_OUT
  /\ stock[ledger[1].producto] = stock0[ledger[1].producto]
  /\ \A c \in Calls : pc[c] = "idle"

(* ------------------------------ C27 ------------------------------------ *)
\* the calls that have read the stock of x under select_for_update and have
\* neither committed nor rolled back
Holders(x) ==
  {c \in Calls : pc[c] \in {"compute", "insert", "commit"} /\ args[c].producto = x}

\* the ways a call leaves apply with the row lock in its hands: commit,
\* insufficient stock, unsupported kind, failed INSERT, and a p.save() that
\* the CHECK on stock refuses
ExitPaths ==
  {Ok(m, "created") : m \in {mv[c] : c \in Calls}}
    \cup {Err(msg) : msg \in {InsufficientMsg, UnsupportedMsg,
                              "CHECK cantidad >= 0", "CHECK stock >= 0"}}

\* C27: at any time at most one call per product is between its locked
\* read of the stock and its commit or rollback, and it is the call that
\* holds the row lock, from the read over the stock write and the INSERT;
\* the step by which a call returns or raises (commit, insufficient stock,
\* unsupported kind, failed INSERT or UPDATE) frees the lock; and a call that waits
\* for the lock of a product gets past the wait.
C27_MutualExclusion ==
  /\ [](\A x \in Productos :
          /\ Cardinality(Holders(x)) <= 1
          /\ Holders(x) = IF lock[x] = 0 THEN {} ELSE {lock[x]})
  /\ [][\A c \in Calls :
          (c \in Holders(args[c].producto) /\ pc'[c] = "idle") =>
             /\ lock'[args[c].producto] = 0
             /\ last'.ret \in ExitPaths]_vars
  /\ \A c \in Pair : (pc[c] = "lock") ~> (pc[c] \in {"compute", "idle"})
  /\ \A x \in Productos : (lock[x] # 0) ~> (lock[x] = 0)

\* a call waits for the lock that the other call holds with its Movement
\* inserted, after a call that failed at its INSERT
C27_Witness ==
  /\ pc[1] = "lock"
  /\ pc[2] = "commit"
  /\ lock[1] = 2
  /\ last.ret.msg = "CHECK cantidad >= 0"

(* ------------------------------ C28 ------------------------------------ *)
\* C28: a call of apply that creates a Movement changes the committed
\* stock of its product once, at its commit, to what the kind yields from
\* the stock before (IN q on s gives s + q); the INSERT of the Movement
\* leaves the stock the call has computed as it is, and no other step of
\* the call touches a committed stock.
C28_SoleMutationPath ==
  [][\A c \in Calls :
       /\ (pc[c] = "insert" /\ pc'[c] = "commit") => p'[c] = p[c]
       /\ Commits(c) =>
            stock' = [stock EXCEPT ![args[c].producto] =
                        NewStock(args[c].movimiento_tipo, @, args[c].cantidad)]
       /\ (pc[c] # "idle" /\ pc'[c] # pc[c] /\ ~Commits(c)) => stock' = stock]_vars

\* IN 2 on a stock of 1 has committed: the stock is 3
C28_Witness ==
  /\ ndone = 1
  /\ ledger # <<>>
  /\ last.ret.how = "created"
  /\ last.args.movimiento_tipo = MOV_IN
  /\ last.args.cantidad = 2
  /\ stock0[last.args.producto] = 1
  /\ stock[last.args.producto] = 3

(* ------------------------------ C29 ------------------------------------ *)
\* a Movement was inserted through the signal variant and its receiver ran
HookRan == legacy.created /\ ~legacy.raised

\* C29: in the post_save receiver an OUT Movement whose quantity exceeds
\* the stock sets the stock to exactly 0, the Movement row stays and
\* nothing is raised; for IN, ADJ and an OUT within the stock the receiver
\* leaves the stock that apply computes; and the receiver changes nothing
\* when a Movement that exists is saved again.
C29_LegacyClamp ==
  /\ [](HookRan =>
          /\ legacy.saved
          /\ ledger # <<>>
          /\ IF legacy.movimiento_tipo = MOV_OUT /\ legacy.cantidad > legacy.before
             THEN legacy.stock = 0
             ELSE /\ legacy.stock =
                       NewStock(legacy.movimiento_tipo, legacy.before, legacy.cantidad)
                  /\ ~(legacy.movimiento_tipo = MOV_OUT
                         /\ Insufficient(legacy.before, legacy.cantidad)))
  /\ [][(legacy' # legacy /\ legacy'.created /\ ~legacy'.raised) =>
          /\ Len(ledger') = Len(ledger) + 1
          /\ stock'[ledger'[Len(ledger')].producto] = legacy'.stock
          /\ legacy'.before = stock[ledger'[Len(ledger')].producto]]_vars
  /\ [][\A i \in 1..Len(ledger) :
          LegacyResave(i) => (stock' = stock /\ ledger' = ledger /\ ~legacy'.raised)]_vars

\* OUT 3 on a stock of 1: stock 0, the row is there
C29_Witness ==
  /\ HookRan
  /\ legacy.movimiento_tipo = MOV_OUT
  /\ legacy.cantidad = 3
  /\ legacy.before = 1
  /\ stock[1] = 0
  /\ ledger[Len(ledger)].movimiento_tipo = MOV_OUT
  /\ ledger[Len(ledger)].cantidad = 3

====
